---- MODULE Spec2Model ----
(***************************************************************************)
(* push2talk: the key-chord tracker, the pause controller, the decision   *)
(* channel and the mute actuator, in the two variants the repository      *)
(* holds: the single-file daemon (src/main.rs: listen_libinput,           *)
(* event_handler, set_sources) and the split controllers                  *)
(* (src/libinput/mod.rs, src/pulseaudio/mod.rs).                           *)
(***************************************************************************)
EXTENDS Integers, Sequences, FiniteSets, TLC

\* ------------------------------------------------------------------ bounds
\* key events in one run of the tracker specification
MaxEvents == 3
\* key events and SIGUSR1 deliveries in one run of the pause specification
MaxPauseEvents == 2
MaxSignals == 2
\* SIGUSR1 deliveries and card events in one run of the actuator specifications
MaxSysSignals == 1
MaxCards == 1
\* push2talk processes started in one run of the start-up specification
NumInstances == 2
\* key events in one run of the system specification
MaxSysEvents == 2
\* decisions one process sends in one run of the start-up specification
MaxSent == 2
\* names in PUSH2TALK_KEYBIND in the key-binding specification
MaxNames == 3

\* --------------------------------------------------------------- constants
MainRs == "main.rs"
LibinputMod == "libinput/mod.rs"
Variants == {MainRs, LibinputMod}

\* Option::None of second_key
NoKey == "None"
Keys == {"Control_L", "Space", "Other"}
\* bindings accepted by parse_keybind and validate_keybind (1 or 2 names)
Bindings == {<<"Control_L">>, <<"Control_L", "Space">>, <<"Control_L", "Control_L">>}

\* the pieces PUSH2TALK_KEYBIND may split into: key names in either case, a
\* name xkb does not know, and the empty piece of "" or of a stray comma
Names == {"Control_L", "control_l", "Space", "InvalidKey", ""}
\* what keysym_from_name gives for a name it does not know
NoSymbol == "NoSymbol"

\* Option::None of PUSH2TALK_SOURCE and of a source's description
NoSource == "NoSource"
NoDesc == "NoDesc"
BuiltIn == "Built-in Microphone"
Headset == "USB Headset Mic"
EasyFx == "Easy Effects Source"
\* the descriptions of the sources a new card brings
NewDescs == {Headset, EasyFx, NoDesc}
Sources == {NoSource, Headset, "Headset", "Mic", "Nonexistent"}
NoMsg == [mute |-> FALSE, origin |-> "none", dev |-> 0]

VARIABLES
    variant,             \* which of the two programs runs
    keybind,             \* PUSH2TALK_KEYBIND (or its default) split at the commas
    first_key,           \* keybind_parsed[0]
    second_key,          \* keybind_parsed.get(1)
    source,              \* parse_source(): PUSH2TALK_SOURCE
    first_key_pressed,
    second_key_pressed,
    last_mute,
    is_running,          \* local of the input loop
    sig_pause,           \* Arc<AtomicBool> set by the SIGUSR1 handler
    pc,                  \* position of the input worker
    fdq,                 \* events readable on the libinput fd, not yet dispatched
    evq,                 \* events libinput has dispatched, not yet iterated
    chan,                \* mpsc channel of decisions, oldest first
    devices,             \* the capture sources of the audio server, by index
    nextIdx,             \* the index the server gives the next source
    is_paused,           \* Arc<Mutex<bool>> read by the subscribe callback
    notif,               \* card notifications not yet given to the callback
    requests,            \* the set_source_mute_by_index calls of the last sweep
    last_recv,           \* the decision of the last sweep
    context,             \* context.get_state(): the state of the PulseAudio context
    act,                 \* position of the actuator
    waits,               \* history: flips at each "Waiting for pulseaudio to be ready..."
    inst,                \* the push2talk processes: position in main and effects
    lockHolder,          \* the process holding the lock on push2talk.lock, or 0
    poll_err,            \* the failure the pending poll returns with, or "none"
    sent_all,            \* history: every decision sent on the channel, in order
    applied,             \* history: every decision the actuator received, in order
    log,                 \* history: the keyboard events handled, with what each sent
    delivered,           \* history: SIGUSR1 deliveries since the last swap
    obs,                 \* history: what the last swap saw and did
    evLeft,              \* key events the run may still produce
    sigLeft,             \* SIGUSR1 deliveries the run may still produce
    cardLeft             \* card events the run may still produce

cfgVars == <<variant, keybind, first_key, second_key, source>>
trackerVars == <<first_key_pressed, second_key_pressed, last_mute>>
audioVars == <<devices, nextIdx, is_paused, notif, requests, last_recv>>
lockVars == <<inst, lockHolder>>
budgetVars == <<evLeft, sigLeft, cardLeft>>
orderVars == <<sent_all, applied>>
readyVars == <<context, act, waits>>

vars == <<cfgVars, trackerVars, is_running, sig_pause, pc, poll_err, fdq, evq, chan,
          audioVars, readyVars, lockVars, orderVars, log, delivered, obs, budgetVars>>

\* ------------------------------------------------------------ key binding
\* xkb::keysym_from_name(k, KEYSYM_CASE_INSENSITIVE)
keysym_from_name(name) ==
    CASE name \in {"Control_L", "control_l"} -> "Control_L"
      [] name = "Space" -> "Space"
      [] OTHER -> NoSymbol

\* parse_keybind on the pieces of the variable: Err if a piece has no keysym
parse_keybind(names) ==
    LET ks == [i \in 1..Len(names) |-> keysym_from_name(names[i])]
    IN  IF \E i \in 1..Len(ks) : ks[i] = NoSymbol
        THEN [ok |-> FALSE, keys |-> <<>>]
        ELSE [ok |-> TRUE, keys |-> ks]

\* a validation that lets three keys through
validate_keybind_upto3(ks) == Len(ks) \in {1, 2, 3}

\* validate_keybind: Ok for 1 | 2 keys, Err for any other length
validate_keybind(ks) == Len(ks) \in {1, 2}

\* ----------------------------------------------------------------- tracker
\* a decision on the channel; origin is history, not program state
Msg(mute, origin) == [mute |-> mute, origin |-> origin, dev |-> 0]

\* Controller::new, last_mute: Cell::new(false); listen_libinput, Cell::new(true)
InitLastMute(v) == IF v = MainRs THEN TRUE ELSE FALSE

\* Controller::update / the match of check_keybind: the second slot is tried first
update(t, key, pressed) ==
    IF second_key # NoKey /\ key = second_key
    THEN [t EXCEPT !.skp = pressed]
    ELSE IF key = first_key
         THEN [t EXCEPT !.fkp = pressed]
         ELSE t

\* a chord that looks at its first key only
should_mute_first_only(t) == ~t.fkp

\* Controller::should_mute / the last line of check_keybind
should_mute(t) == ~t.fkp \/ (second_key # NoKey /\ ~t.skp)

\* handle without last_mute.set(should_mute)
handle_keeps_last_mute(t, ev) ==
    LET u == update(t, ev.key, ev.pressed)
        m == should_mute(u)
    IN  IF m # u.lm
        THEN [t |-> u, sent |-> <<m>>]
        ELSE [t |-> u, sent |-> <<>>]

\* Controller::handle / event_handler on one keyboard event: the tracker after
\* it and the decisions it sent
handle(t, ev) ==
    LET u == update(t, ev.key, ev.pressed)
        m == should_mute(u)
    IN  IF m # u.lm
        THEN [t |-> [u EXCEPT !.lm = m], sent |-> <<m>>]
        ELSE [t |-> u, sent |-> <<>>]

Tracker == [fkp |-> first_key_pressed, skp |-> second_key_pressed, lm |-> last_mute]

\* the for loop over the dispatched events: handle each in order
RECURSIVE HandleAll(_, _)
HandleAll(q, acc) ==
    IF q = <<>> THEN acc
    ELSE LET r == handle(acc.t, Head(q))
         IN  HandleAll(Tail(q),
                 [t    |-> r.t,
                  sent |-> acc.sent \o r.sent,
                  log  |-> Append(acc.log,
                              [key |-> Head(q).key, pressed |-> Head(q).pressed,
                               paused |-> Head(q).paused, sent |-> r.sent,
                               fkp |-> r.t.fkp, skp |-> r.t.skp, lm |-> r.t.lm])])

RECURSIVE Msgs(_)
Msgs(bs) == IF bs = <<>> THEN <<>> ELSE <<Msg(Head(bs), "key")>> \o Msgs(Tail(bs))

\* Sender::send of the decisions ms, in order: mpsc appends at the tail
send(ms) ==
    /\ chan' = chan \o ms
    /\ sent_all' = sent_all \o ms

\* a receive that takes the newest decision
recv_newest(q) == [msg |-> q[Len(q)], rest |-> SubSeq(q, 1, Len(q) - 1)]

\* Receiver::recv on a channel that holds decisions: the oldest, and the rest
recv(q) == [msg |-> Head(q), rest |-> Tail(q)]

\* the state change of the for loop over q
ApplyEvents(q) ==
    LET r == HandleAll(q, [t |-> Tracker, sent |-> <<>>, log |-> log])
    IN  /\ first_key_pressed' = r.t.fkp
        /\ second_key_pressed' = r.t.skp
        /\ last_mute' = r.t.lm
        /\ send(Msgs(r.sent))
        /\ log' = r.log

\* a load in place of the swap: the flag stays set
swap_keeps_flag(cur, new) == [ret |-> cur, val |-> cur]

\* sig_pause.swap(false, Ordering::Relaxed): the value read and the value left
swap(cur, new) == [ret |-> cur, val |-> new]

\* a pause that always mutes
pause_decision_mutes(running) == TRUE

\* "Toggle mute on pause/resume", tx.send(is_running): the decision
\* Controller::run sends after a flip, from the new value of is_running
pause_decision(running) == running

\* ------------------------------------------------------------- actuator
\* a description as the characters of the string
Text(s) ==
    CASE s = BuiltIn -> <<"B", "u", "i", "l", "t", "-", "i", "n", " ", "M", "i", "c",
                          "r", "o", "p", "h", "o", "n", "e">>
      [] s = Headset -> <<"U", "S", "B", " ", "H", "e", "a", "d", "s", "e", "t", " ",
                          "M", "i", "c">>
      [] s = EasyFx -> <<"E", "a", "s", "y", " ", "E", "f", "f", "e", "c", "t", "s",
                         " ", "S", "o", "u", "r", "c", "e">>
      [] s = "Headset" -> <<"H", "e", "a", "d", "s", "e", "t">>
      [] s = "Mic" -> <<"M", "i", "c">>
      [] s = "Nonexistent" -> <<"N", "o", "n", "e", "x", "i", "s", "t", "e", "n", "t">>

\* str::to_lowercase on the letters the descriptions use
LowerChar(c) ==
    CASE c = "B" -> "b" [] c = "E" -> "e" [] c = "H" -> "h" [] c = "M" -> "m"
      [] c = "N" -> "n" [] c = "S" -> "s" [] c = "U" -> "u" [] OTHER -> c

to_lowercase(t) == [i \in 1..Len(t) |-> LowerChar(t[i])]

\* str::contains: pat occurs in t as a run of consecutive characters
contains(t, pat) ==
    \E i \in 1..(Len(t) - Len(pat) + 1) : SubSeq(t, i, i + Len(pat) - 1) = pat

EasyEffects == <<"e", "a", "s", "y", " ", "e", "f", "f", "e", "c", "t", "s">>

\* a filter matched as a substring of the description
toggle_substring(v, src, desc) ==
    IF src # NoSource
    THEN desc # NoDesc /\ contains(Text(desc), Text(src))
    ELSE IF v = MainRs
         THEN TRUE
         ELSE desc = NoDesc \/ ~contains(to_lowercase(Text(desc)), EasyEffects)

\* `toggle` in the get_source_info_list callback: does the sweep touch a source
\* with this description
toggle(v, src, desc) ==
    IF src # NoSource
    THEN desc # NoDesc /\ Text(src) = Text(desc)
    ELSE IF v = MainRs
         THEN TRUE
         ELSE desc = NoDesc \/ ~contains(to_lowercase(Text(desc)), EasyEffects)

\* the decision passed on whatever the active port
mute_value_ignores_port(v, dev, mute) == mute

\* the mute value of set_source_mute_by_index for a source
mute_value(v, dev, mute) == IF v = MainRs THEN mute ELSE dev.port /\ mute

\* a sweep that ends at the first source whose request fails
Swept_until_failure ==
    {d \in devices :
        /\ toggle(variant, source, d.desc)
        /\ \A e \in devices :
              (toggle(variant, source, e.desc) /\ ~e.ok) => e.index >= d.index}

\* the sources a sweep touches
Swept == {d \in devices : toggle(variant, source, d.desc)}

\* a lock that is always granted
try_lock_always(holder) == TRUE

\* lock_file.try_lock_exclusive().is_ok(): nobody holds the lock
try_lock_exclusive(holder) == holder = 0

\* -------------------------------------------------------------------- Init
Instances == 1..NumInstances
AlreadyRunning == "Another instance is already running."

\* the locals of listen_libinput and Controller::run, and the cells of the
\* tracker
InitLocals(at) ==
    /\ first_key_pressed = FALSE
    /\ second_key_pressed = FALSE
    /\ last_mute = InitLastMute(variant)
    /\ is_running = TRUE
    /\ sig_pause = FALSE
    /\ pc = at
    /\ poll_err = "none"
    /\ fdq = <<>>
    /\ evq = <<>>
    /\ chan = <<>>
    /\ sent_all = <<>>
    /\ applied = <<>>
    /\ log = <<>>
    /\ delivered = 0
    /\ obs = [n |-> 0, flips |-> 0, seen |-> FALSE]

\* the worker state after construction: Controller::new, and the locals of
\* listen_libinput and Controller::run
InitWorker(vs, kbs) ==
    /\ variant \in vs
    /\ \E kb \in kbs :
          /\ keybind = kb
          /\ first_key = kb[1]
          /\ second_key = IF Len(kb) >= 2 THEN kb[2] ELSE NoKey
    /\ InitLocals("start")

\* the audio server and the actuator at position at: "connect" before
\* context.connect, "recv" in the receive loop with the context Ready
InitAudioAt(devs, at) ==
    /\ devices = devs
    /\ nextIdx = Cardinality(devs) + 1
    /\ is_paused = FALSE
    /\ notif = <<>>
    /\ requests = {}
    /\ last_recv = NoMsg
    /\ act = at
    /\ context = IF at = "recv" THEN "Ready" ELSE "Unconnected"
    /\ waits = FALSE

InitAudio(devs) == InitAudioAt(devs, "recv")

InitInstances ==
    /\ inst = [p \in Instances |->
                 [pc |-> "off", actuator |-> FALSE, input |-> FALSE,
                  started |-> FALSE, sent |-> 0, flagged |-> FALSE, err |-> "",
                  failed |-> "", tick |-> FALSE]]
    /\ lockHolder = 0

\* the two sources of the device-filter example
ExampleDevices ==
    {[index |-> 1, desc |-> BuiltIn, port |-> TRUE, muted |-> FALSE, ok |-> TRUE],
     [index |-> 2, desc |-> Headset, port |-> TRUE, muted |-> FALSE, ok |-> TRUE]}

\* PUSH2TALK_KEYBIND unset: "Control_L,Space"
DefaultBinding == <<"Control_L", "Space">>

InitTracker ==
    /\ InitWorker(Variants, Bindings) /\ InitAudio({}) /\ InitInstances
    /\ source = NoSource
    /\ evLeft = MaxEvents /\ sigLeft = 0 /\ cardLeft = 0

InitPause ==
    /\ InitWorker(Variants, Bindings) /\ InitAudio({}) /\ InitInstances
    /\ source = NoSource
    /\ evLeft = MaxPauseEvents /\ sigLeft = MaxSignals /\ cardLeft = 0

InitFilter ==
    /\ InitWorker(Variants, {DefaultBinding}) /\ InitAudio(ExampleDevices) /\ InitInstances
    /\ source \in Sources
    /\ evLeft = 0 /\ sigLeft = MaxSysSignals /\ cardLeft = 0

InitAudioSys ==
    /\ InitWorker({LibinputMod}, {DefaultBinding}) /\ InitAudio(ExampleDevices) /\ InitInstances
    /\ source \in {NoSource, Headset}
    /\ evLeft = 0 /\ sigLeft = MaxSysSignals /\ cardLeft = MaxCards

\* three sources, each with or without an active port and able or not to
\* take a set-mute request
SweepDevices ==
    LET base == ExampleDevices \cup
                {[index |-> 3, desc |-> EasyFx, port |-> TRUE, muted |-> FALSE,
                  ok |-> TRUE]}
        idx == {d.index : d \in base}
    IN  {{[d EXCEPT !.port = f[d.index], !.ok = g[d.index]] : d \in base} :
            f \in [idx -> BOOLEAN], g \in [idx -> BOOLEAN]}

InitSweep ==
    /\ InitWorker(Variants, {DefaultBinding}) /\ InitInstances
    /\ \E devs \in SweepDevices : InitAudio(devs)
    /\ source \in {NoSource, Headset, "Mic"}
    /\ evLeft = 0 /\ sigLeft = MaxSysSignals /\ cardLeft = 0

\* either program with one source, a binding of one key or the default
InitSystem ==
    /\ InitWorker(Variants, {<<"Control_L">>, DefaultBinding})
    /\ InitAudio({[index |-> 1, desc |-> BuiltIn, port |-> TRUE, muted |-> FALSE,
                   ok |-> TRUE]})
    /\ InitInstances
    /\ source = NoSource
    /\ evLeft = MaxSysEvents /\ sigLeft = MaxSysSignals /\ cardLeft = MaxCards

\* the same without SIGUSR1
InitOrder ==
    /\ InitWorker({LibinputMod}, {<<"Control_L">>, DefaultBinding})
    /\ InitAudio({[index |-> 1, desc |-> BuiltIn, port |-> TRUE, muted |-> FALSE,
                   ok |-> TRUE]})
    /\ InitInstances
    /\ source = NoSource
    /\ evLeft = MaxSysEvents /\ sigLeft = 0 /\ cardLeft = MaxCards

\* either program from the start of its actuator, before context.connect
InitReady ==
    /\ InitWorker(Variants, {DefaultBinding})
    /\ InitAudioAt(ExampleDevices, "connect")
    /\ InitInstances
    /\ source \in {NoSource, Headset}
    /\ evLeft = 0 /\ sigLeft = 0 /\ cardLeft = 0

\* either program from the start of both workers, with a binding of one key
\* and one source
InitFirst ==
    /\ InitWorker(Variants, {<<"Control_L">>})
    /\ InitAudioAt({[index |-> 1, desc |-> BuiltIn, port |-> TRUE, muted |-> FALSE,
                     ok |-> TRUE]}, "connect")
    /\ InitInstances
    /\ source = NoSource
    /\ evLeft = MaxSysEvents /\ sigLeft = MaxSysSignals /\ cardLeft = MaxCards

InitStart ==
    /\ InitWorker({MainRs}, {DefaultBinding}) /\ InitAudio({}) /\ InitInstances
    /\ source = NoSource
    /\ evLeft = 0 /\ sigLeft = 0 /\ cardLeft = 0

\* the lists of 1 to MaxNames pieces: split(',') always gives at least one
NameLists == UNION {[1..n -> Names] : n \in 1..MaxNames}

\* before construction: the variable is read, no key is configured yet
InitKeybind ==
    /\ variant \in Variants
    /\ keybind \in NameLists
    /\ first_key = NoKey /\ second_key = NoKey
    /\ InitLocals("new") /\ InitAudio({}) /\ InitInstances
    /\ source = NoSource
    /\ evLeft = 0 /\ sigLeft = 0 /\ cardLeft = 0

\* ------------------------------------------------------------- environment
\* a key goes down or up on some keyboard of the seat
KeyEvent ==
    /\ pc \notin {"start", "failed"}
    /\ evLeft > 0
    /\ \E k \in Keys, p \in BOOLEAN :
          fdq' = Append(fdq, [key |-> k, pressed |-> p, paused |-> ~is_running])
    /\ evLeft' = evLeft - 1
    /\ UNCHANGED <<cfgVars, readyVars, poll_err, orderVars, trackerVars, is_running, sig_pause, pc, evq, chan,
                   audioVars, lockVars, log, delivered, obs, sigLeft, cardLeft>>

\* SIGUSR1 arrives: the handler of signal_hook::flag::register stores true; if
\* the thread it interrupts is the input worker blocked in poll, poll fails
\* with EINTR
Signal ==
    /\ pc \notin {"start", "failed"}
    /\ sigLeft > 0
    /\ sig_pause' = TRUE
    /\ poll_err' \in (IF pc = "poll" /\ poll_err = "none"
                      THEN {"none", "EINTR"} ELSE {poll_err})
    /\ delivered' = delivered + 1
    /\ sigLeft' = sigLeft - 1
    /\ UNCHANGED <<cfgVars, readyVars, orderVars, trackerVars, is_running, pc, fdq, evq, chan, audioVars,
                   lockVars, log, obs, evLeft, cardLeft>>

\* a card appears and brings a source
CardNew ==
    /\ cardLeft > 0
    /\ \E d \in NewDescs, port \in BOOLEAN :
          devices' = devices \cup
              {[index |-> nextIdx, desc |-> d, port |-> port, muted |-> FALSE,
                ok |-> TRUE]}
    /\ nextIdx' = nextIdx + 1
    /\ notif' = IF variant = LibinputMod
                THEN Append(notif, [operation |-> "New", dev |-> nextIdx])
                ELSE notif
    /\ cardLeft' = cardLeft - 1
    /\ UNCHANGED <<cfgVars, readyVars, poll_err, orderVars, trackerVars, is_running, sig_pause, pc, fdq, evq, chan,
                   is_paused, requests, last_recv, lockVars, log, delivered, obs,
                   evLeft, sigLeft>>

\* a card goes away and takes its source with it
CardRemoved ==
    /\ cardLeft > 0
    /\ \E d \in devices :
          /\ devices' = devices \ {d}
          /\ notif' = IF variant = LibinputMod
                      THEN Append(notif, [operation |-> "Removed", dev |-> d.index])
                      ELSE notif
    /\ cardLeft' = cardLeft - 1
    /\ UNCHANGED <<cfgVars, readyVars, poll_err, orderVars, trackerVars, is_running, sig_pause, pc, fdq, evq, chan,
                   nextIdx, is_paused, requests, last_recv, lockVars, log,
                   delivered, obs, evLeft, sigLeft>>

\* a card changes: the active port of its source comes or goes
CardChanged ==
    /\ cardLeft > 0
    /\ \E d \in devices :
          /\ devices' = (devices \ {d}) \cup {[d EXCEPT !.port = ~d.port]}
          /\ notif' = IF variant = LibinputMod
                      THEN Append(notif, [operation |-> "Changed", dev |-> d.index])
                      ELSE notif
    /\ cardLeft' = cardLeft - 1
    /\ UNCHANGED <<cfgVars, readyVars, poll_err, orderVars, trackerVars, is_running, sig_pause, pc, fdq, evq, chan,
                   nextIdx, is_paused, requests, last_recv, lockVars, log,
                   delivered, obs, evLeft, sigLeft>>

\* poll on the libinput fd fails for a reason other than a signal
PollFailure ==
    /\ pc = "poll"
    /\ poll_err = "none"
    /\ poll_err' = "other"
    /\ UNCHANGED <<cfgVars, readyVars, orderVars, trackerVars, is_running, sig_pause, pc, fdq,
                   evq, chan, audioVars, lockVars, log, delivered, obs, budgetVars>>

\* ------------------------------------------------------------ input worker
\* Controller::new, and main up to "Initialize key states": parse_keybind()?,
\* validate_keybind()?, then the keys of the tracker
New ==
    /\ pc = "new"
    /\ LET p == parse_keybind(keybind)
       IN  IF ~p.ok
           THEN pc' = "parse_err" /\ UNCHANGED <<first_key, second_key>>
           ELSE IF ~validate_keybind(p.keys)
                THEN pc' = "validate_err" /\ UNCHANGED <<first_key, second_key>>
                ELSE /\ first_key' = p.keys[1]
                     /\ second_key' = IF Len(p.keys) >= 2 THEN p.keys[2] ELSE NoKey
                     /\ pc' = "start"
    /\ UNCHANGED <<variant, keybind, source, readyVars, poll_err, orderVars, trackerVars,
                   is_running, sig_pause, fdq, evq, chan, audioVars, lockVars, log,
                   delivered, obs, budgetVars>>

\* a start without a decision
mute_on_init_nothing == <<>>

\* "Mute on init": tx.send(true)?, tx_set_source.send((true, source.clone()))?
mute_on_init == <<Msg(TRUE, "init")>>

\* "Mute on init": main sends (true, source); Controller::run sends true
MuteOnInit ==
    /\ pc = "start"
    /\ send(mute_on_init)
    /\ pc' = "poll"
    /\ UNCHANGED <<cfgVars, readyVars, poll_err, applied, trackerVars, is_running, sig_pause, fdq, evq, audioVars,
                   lockVars, log, delivered, obs, budgetVars>>

\* Controller::run: poll returns and dispatch reads the fd
Run_Dispatch ==
    /\ variant = LibinputMod
    /\ pc = "poll"
    /\ poll_err = "none"
    /\ evq' = evq \o fdq
    /\ fdq' = <<>>
    /\ pc' = "sig"
    /\ UNCHANGED <<cfgVars, readyVars, poll_err, orderVars, trackerVars, is_running, sig_pause, chan, audioVars,
                   lockVars, log, delivered, obs, budgetVars>>

\* Controller::run, poll < 0: `continue` on EINTR, Err on anything else
poll_failed(err) == IF err = "EINTR" THEN "poll" ELSE "failed"

\* Controller::run: poll returns an error
Run_PollErr ==
    /\ variant = LibinputMod
    /\ pc = "poll"
    /\ poll_err # "none"
    /\ pc' = poll_failed(poll_err)
    /\ poll_err' = "none"
    /\ UNCHANGED <<cfgVars, readyVars, orderVars, trackerVars, is_running, sig_pause, fdq, evq,
                   chan, audioVars, lockVars, log, delivered, obs, budgetVars>>

\* Controller::run: the swap of sig_pause, the flip, the decision sent on the
\* flip and the drain on resume
Run_SigPause ==
    /\ variant = LibinputMod
    /\ pc = "sig"
    /\ LET s == swap(sig_pause, FALSE)
           r == IF s.ret THEN ~is_running ELSE is_running
       IN  /\ sig_pause' = s.val
           /\ is_running' = r
           /\ send(IF s.ret THEN <<Msg(pause_decision(r), "pause")>> ELSE <<>>)
           /\ evq' = IF s.ret /\ r THEN <<>> ELSE evq
           /\ obs' = [n |-> delivered, flips |-> IF r # is_running THEN 1 ELSE 0,
                      seen |-> TRUE]
    /\ delivered' = 0
    /\ pc' = "events"
    /\ UNCHANGED <<cfgVars, readyVars, poll_err, applied, trackerVars, fdq, audioVars, lockVars, log, budgetVars>>

\* Controller::run: the for loop, which hands events to handle only if is_running
Run_Events ==
    /\ variant = LibinputMod
    /\ pc = "events"
    /\ IF is_running
       THEN ApplyEvents(evq)
       ELSE UNCHANGED <<trackerVars, chan, sent_all, log>>
    /\ evq' = <<>>
    /\ pc' = "poll"
    /\ UNCHANGED <<cfgVars, readyVars, poll_err, applied, is_running, sig_pause, fdq, audioVars, lockVars,
                   delivered, obs, budgetVars>>

\* listen_libinput: poll returns (readiness or the 1 s timeout)
Listen_Poll ==
    /\ variant = MainRs
    /\ pc = "poll"
    /\ poll_err = "none"
    /\ pc' = "sig"
    /\ UNCHANGED <<cfgVars, readyVars, poll_err, orderVars, trackerVars, is_running, sig_pause, fdq, evq, chan,
                   audioVars, lockVars, log, delivered, obs, budgetVars>>

\* listen_libinput: poll returns an error, whichever, and the function
\* returns Err("Unable to poll libinput, aborting")
Listen_PollErr ==
    /\ variant = MainRs
    /\ pc = "poll"
    /\ poll_err # "none"
    /\ pc' = "failed"
    /\ poll_err' = "none"
    /\ UNCHANGED <<cfgVars, readyVars, orderVars, trackerVars, is_running, sig_pause, fdq, evq,
                   chan, audioVars, lockVars, log, delivered, obs, budgetVars>>

\* listen_libinput: the swap of sig_pause and the flip; paused, it sleeps and
\* goes back to poll without dispatching
Listen_SigPause ==
    /\ variant = MainRs
    /\ pc = "sig"
    /\ LET s == swap(sig_pause, FALSE)
           r == IF s.ret THEN ~is_running ELSE is_running
       IN  /\ sig_pause' = s.val
           /\ is_running' = r
           /\ obs' = [n |-> delivered, flips |-> IF r # is_running THEN 1 ELSE 0,
                      seen |-> TRUE]
           /\ pc' = IF r THEN "events" ELSE "poll"
    /\ delivered' = 0
    /\ UNCHANGED <<cfgVars, readyVars, poll_err, orderVars, trackerVars, fdq, evq, chan, audioVars, lockVars, log,
                   budgetVars>>

\* listen_libinput: dispatch reads the fd and event_handler gets every event
Listen_Events ==
    /\ variant = MainRs
    /\ pc = "events"
    /\ ApplyEvents(evq \o fdq)
    /\ evq' = <<>>
    /\ fdq' = <<>>
    /\ pc' = "poll"
    /\ UNCHANGED <<cfgVars, readyVars, poll_err, applied, is_running, sig_pause, audioVars, lockVars, delivered,
                   obs, budgetVars>>

\* ----------------------------------------------------------- mute actuator
\* the writer of the pause flag the subscribe callback reads: the pause state
\* of the input worker is published to it
PublishPause ==
    /\ variant = LibinputMod
    /\ is_paused # ~is_running
    /\ is_paused' = ~is_running
    /\ UNCHANGED <<cfgVars, readyVars, poll_err, orderVars, trackerVars, is_running, sig_pause, pc, fdq, evq, chan,
                   devices, nextIdx, notif, requests, last_recv, lockVars, log,
                   delivered, obs, budgetVars>>

\* a callback that does not look at the pause flag
subscribe_callback_ignores_pause(paused, n) ==
    <<[mute |-> TRUE, origin |-> "card",
       dev |-> IF n.operation = "New" THEN n.dev ELSE 0]>>

\* the closure of set_subscribe_callback on a card New, Removed or Changed:
\* nothing if *is_paused, else tx.send(true)
subscribe_callback(paused, n) ==
    IF paused
    THEN <<>>
    ELSE <<[mute |-> TRUE, origin |-> "card",
            dev |-> IF n.operation = "New" THEN n.dev ELSE 0]>>

\* pulseaudio Controller::run, the subscribe callback on one card notification
SubscribeCallback ==
    /\ variant = LibinputMod
    /\ act = "recv"
    /\ notif # <<>>
    /\ send(subscribe_callback(is_paused, Head(notif)))
    /\ notif' = Tail(notif)
    /\ UNCHANGED <<cfgVars, readyVars, poll_err, applied, trackerVars, is_running, sig_pause, pc, fdq, evq,
                   devices, nextIdx, is_paused, requests, last_recv, lockVars, log,
                   delivered, obs, budgetVars>>

\* set_sources and pulseaudio Controller::run: context.connect(..)?, which
\* either fails at once or starts the connection
Connect ==
    /\ act = "connect"
    /\ \E ok \in BOOLEAN :
          /\ act' = IF ok THEN "wait" ELSE "failed"
          /\ context' = IF ok THEN "Connecting" ELSE "Failed"
    /\ UNCHANGED <<cfgVars, waits, poll_err, orderVars, trackerVars, is_running,
                   sig_pause, pc, fdq, evq, chan, audioVars, lockVars, log,
                   delivered, obs, budgetVars>>

\* the states a context goes through on its way to Ready
NextContextState(s) ==
    CASE s = "Connecting" -> "Authorizing"
      [] s = "Authorizing" -> "SettingName"
      [] s = "SettingName" -> "Ready"
      [] OTHER -> s

\* the threaded mainloop moves the context one state forward
ContextProgress ==
    /\ context \in {"Connecting", "Authorizing", "SettingName"}
    /\ context' = NextContextState(context)
    /\ UNCHANGED <<cfgVars, act, waits, poll_err, orderVars, trackerVars, is_running,
                   sig_pause, pc, fdq, evq, chan, audioVars, lockVars, log,
                   delivered, obs, budgetVars>>

\* the server refuses the connection, is not there or goes away: the context
\* is Failed and stays so
ContextFail ==
    /\ context \in {"Connecting", "Authorizing", "SettingName", "Ready"}
    /\ context' = "Failed"
    /\ UNCHANGED <<cfgVars, act, waits, poll_err, orderVars, trackerVars, is_running,
                   sig_pause, pc, fdq, evq, chan, audioVars, lockVars, log,
                   delivered, obs, budgetVars>>

\* "Wait for context to be ready", one turn of the loop after its sleep:
\* break on State::Ready, another turn on any other state
wait(st) == IF st = "Ready" THEN "recv" ELSE "wait"

\* set_sources and pulseaudio Controller::run: one turn of the wait loop
WaitReady ==
    /\ act = "wait"
    /\ act' = wait(context)
    /\ waits' = IF wait(context) = "wait" THEN ~waits ELSE waits
    /\ UNCHANGED <<cfgVars, context, poll_err, orderVars, trackerVars, is_running,
                   sig_pause, pc, fdq, evq, chan, audioVars, lockVars, log,
                   delivered, obs, budgetVars>>

\* the receive loop of set_sources and of pulseaudio Controller::run: one
\* decision received, and the sweep over the sources it starts. Every selected
\* source gets its request; the request of a source that cannot take it
\* (ok = FALSE) has no effect, and nothing reads its result
Recv ==
    /\ act = "recv"
    /\ chan # <<>>
    /\ LET m == recv(chan).msg
           sw == Swept
       IN  /\ requests' = {[index |-> d.index,
                            mute |-> mute_value(variant, d, m.mute)] : d \in sw}
           /\ devices' = (devices \ sw) \cup
                 {IF d.ok THEN [d EXCEPT !.muted = mute_value(variant, d, m.mute)]
                  ELSE d : d \in sw}
           /\ last_recv' = m
           /\ applied' = Append(applied, m)
    /\ chan' = recv(chan).rest
    /\ UNCHANGED <<cfgVars, readyVars, poll_err, sent_all, trackerVars, is_running, sig_pause, pc, fdq, evq,
                   nextIdx, is_paused, notif, lockVars, log, delivered, obs,
                   budgetVars>>

\* ------------------------------------------------------------------ main
\* the positions of main after which register_signal has run
Registered == {"listen", "loop"}
\* the positions of main before it, in a process that runs
Starting == {"lock", "config", "spawn", "mute", "register"}

\* the process has ended: its threads are gone and its lock is released
Exited(i, e) ==
    [i EXCEPT !.pc = "exited", !.actuator = FALSE, !.input = FALSE, !.err = e]

ReleaseLock(p) == IF lockHolder = p THEN 0 ELSE lockHolder

\* main: Cli::parse; with --toggle-pause, killall -SIGUSR1 push2talk and Ok(()).
\* SIGUSR1 sets the flag of a process that has registered its handler and
\* ends a process that has not
Main_Cli(p) ==
    /\ inst[p].pc = "off"
    /\ \E toggle_pause \in BOOLEAN :
          IF toggle_pause
          THEN /\ inst' = [q \in Instances |->
                              IF q = p THEN Exited(inst[q], "")
                              ELSE IF inst[q].pc \in Registered
                                   THEN [inst[q] EXCEPT !.flagged = TRUE]
                                   ELSE IF inst[q].pc \in Starting
                                        THEN Exited(inst[q], "SIGUSR1")
                                        ELSE inst[q]]
               /\ lockHolder' = IF lockHolder # 0 /\ inst[lockHolder].pc \in Starting
                                THEN 0 ELSE lockHolder
          ELSE /\ inst' = [inst EXCEPT ![p].pc = "lock"]
               /\ UNCHANGED lockHolder
    /\ UNCHANGED <<cfgVars, readyVars, poll_err, orderVars, trackerVars, is_running, sig_pause, pc, fdq, evq, chan,
                   audioVars, log, delivered, obs, budgetVars>>

\* main: take_lock()? and try_lock_exclusive
Main_Lock(p) ==
    /\ inst[p].pc = "lock"
    /\ \E opened \in BOOLEAN :
          IF ~opened
          THEN /\ inst' = [inst EXCEPT ![p] = Exited(@, "take_lock")]
               /\ UNCHANGED lockHolder
          ELSE IF try_lock_exclusive(lockHolder)
               THEN /\ inst' = [inst EXCEPT ![p].pc = "config"]
                    /\ lockHolder' = p
               ELSE /\ inst' = [inst EXCEPT ![p] = Exited(@, AlreadyRunning)]
                    /\ UNCHANGED lockHolder
    /\ UNCHANGED <<cfgVars, readyVars, poll_err, orderVars, trackerVars, is_running, sig_pause, pc, fdq, evq, chan,
                   audioVars, log, delivered, obs, budgetVars>>

\* main: parse_keybind()? and validate_keybind()?
Main_Config(p) ==
    /\ inst[p].pc = "config"
    /\ \E ok \in BOOLEAN :
          IF ok
          THEN /\ inst' = [inst EXCEPT ![p].pc = "spawn"]
               /\ UNCHANGED lockHolder
          ELSE /\ inst' = [inst EXCEPT ![p] = Exited(@, "keybind")]
               /\ lockHolder' = ReleaseLock(p)
    /\ UNCHANGED <<cfgVars, readyVars, poll_err, orderVars, trackerVars, is_running, sig_pause, pc, fdq, evq, chan,
                   audioVars, log, delivered, obs, budgetVars>>

\* main: thread::spawn of set_sources
Main_Spawn(p) ==
    /\ inst[p].pc = "spawn"
    /\ inst' = [inst EXCEPT ![p].pc = "mute", ![p].actuator = TRUE,
                            ![p].started = TRUE]
    /\ UNCHANGED <<cfgVars, readyVars, poll_err, orderVars, trackerVars, is_running, sig_pause, pc, fdq, evq, chan,
                   audioVars, lockHolder, log, delivered, obs, budgetVars>>

\* the actuator thread: set_sources returns Err (context.connect) or an
\* expect fails, the thread panics and drops the receiver; main is not told
Actuator_Fail(p) ==
    /\ inst[p].actuator
    /\ inst' = [inst EXCEPT ![p].actuator = FALSE, ![p].failed = "actuator"]
    /\ UNCHANGED <<cfgVars, readyVars, poll_err, orderVars, trackerVars, is_running, sig_pause,
                   pc, fdq, evq, chan, audioVars, lockHolder, log, delivered, obs,
                   budgetVars>>

\* main: "Mute on init", tx_set_source.send((true, source))?: Err, and main
\* returns, if the receiver is gone
Main_Mute(p) ==
    /\ inst[p].pc = "mute"
    /\ IF inst[p].actuator
       THEN /\ inst' = [inst EXCEPT ![p].pc = "register", ![p].sent = @ + 1]
            /\ UNCHANGED lockHolder
       ELSE /\ inst' = [inst EXCEPT ![p] = Exited(@, "send")]
            /\ lockHolder' = ReleaseLock(p)
    /\ UNCHANGED <<cfgVars, readyVars, poll_err, orderVars, trackerVars, is_running, sig_pause,
                   pc, fdq, evq, chan, audioVars, log, delivered, obs, budgetVars>>

\* main: register_signal(&sig_pause)?
Main_Register(p) ==
    /\ inst[p].pc = "register"
    /\ \E ok \in BOOLEAN :
          IF ok
          THEN /\ inst' = [inst EXCEPT ![p].pc = "listen"]
               /\ UNCHANGED lockHolder
          ELSE /\ inst' = [inst EXCEPT ![p] = Exited(@, "register_signal")]
               /\ lockHolder' = ReleaseLock(p)
    /\ UNCHANGED <<cfgVars, readyVars, poll_err, orderVars, trackerVars, is_running, sig_pause, pc, fdq, evq, chan,
                   audioVars, log, delivered, obs, budgetVars>>

\* main: listen_libinput up to its loop; udev_assign_seat may fail
Main_Listen(p) ==
    /\ inst[p].pc = "listen"
    /\ \E ok \in BOOLEAN :
          IF ok
          THEN /\ inst' = [inst EXCEPT ![p].pc = "loop", ![p].input = TRUE,
                                       ![p].started = TRUE]
               /\ UNCHANGED lockHolder
          ELSE /\ inst' = [inst EXCEPT ![p] = Exited(@, "seat0")]
               /\ lockHolder' = ReleaseLock(p)
    /\ UNCHANGED <<cfgVars, readyVars, poll_err, orderVars, trackerVars, is_running, sig_pause, pc, fdq, evq, chan,
                   audioVars, log, delivered, obs, budgetVars>>

\* listen_libinput: one turn of the loop that sends nothing: poll returns on
\* its timeout, or with events that do not change the decision
Main_LoopIdle(p) ==
    /\ inst[p].pc = "loop"
    /\ inst' = [inst EXCEPT ![p].tick = ~@]
    /\ UNCHANGED <<cfgVars, readyVars, poll_err, orderVars, trackerVars, is_running, sig_pause,
                   pc, fdq, evq, chan, audioVars, lockHolder, log, delivered, obs,
                   budgetVars>>

\* listen_libinput: a key event changes the decision and event_handler sends
\* it: tx.send(...)? is Err, and main returns, if the receiver is gone
Main_LoopSend(p) ==
    /\ inst[p].pc = "loop"
    /\ IF inst[p].actuator
       THEN /\ inst[p].sent < MaxSent
            /\ inst' = [inst EXCEPT ![p].sent = @ + 1]
            /\ UNCHANGED lockHolder
       ELSE /\ inst' = [inst EXCEPT ![p] = Exited(@, "send")]
            /\ lockHolder' = ReleaseLock(p)
    /\ UNCHANGED <<cfgVars, readyVars, poll_err, orderVars, trackerVars, is_running, sig_pause,
                   pc, fdq, evq, chan, audioVars, log, delivered, obs, budgetVars>>

\* main: listen_libinput returns an error and main returns it
Main_LoopErr(p) ==
    /\ inst[p].pc = "loop"
    /\ inst' = [inst EXCEPT ![p] = [Exited(@, "poll") EXCEPT !.failed = "input"]]
    /\ lockHolder' = ReleaseLock(p)
    /\ UNCHANGED <<cfgVars, readyVars, poll_err, orderVars, trackerVars, is_running, sig_pause, pc, fdq, evq, chan,
                   audioVars, log, delivered, obs, budgetVars>>

\* ---------------------------------------------------------- specifications
\* the loop of the input worker
NextWorker ==
    \/ MuteOnInit
    \/ Run_Dispatch
    \/ Run_SigPause
    \/ Run_Events
    \/ Listen_Poll
    \/ Listen_SigPause
    \/ Listen_Events

NextTracker == NextWorker \/ KeyEvent

NextPause ==
    \/ NextWorker
    \/ KeyEvent
    \/ Signal
    \/ PollFailure
    \/ Run_PollErr
    \/ Listen_PollErr

\* the same without a poll failure other than EINTR
NextSignals ==
    \/ NextWorker
    \/ KeyEvent
    \/ Signal
    \/ Run_PollErr
    \/ Listen_PollErr

NextFilter ==
    \/ NextWorker
    \/ Run_PollErr
    \/ Listen_PollErr
    \/ Signal
    \/ PublishPause
    \/ Recv

NextAudio ==
    \/ MuteOnInit
    \/ Run_Dispatch
    \/ Run_PollErr
    \/ Run_SigPause
    \/ Run_Events
    \/ Signal
    \/ CardNew
    \/ CardRemoved
    \/ CardChanged
    \/ PublishPause
    \/ SubscribeCallback
    \/ Recv

\* the senders, without the receiver
NextSystem ==
    \/ NextWorker
    \/ Run_PollErr
    \/ Listen_PollErr
    \/ KeyEvent
    \/ Signal
    \/ CardNew
    \/ CardRemoved
    \/ CardChanged
    \/ PublishPause
    \/ SubscribeCallback

\* the two senders and the receiver
NextOrder ==
    \/ MuteOnInit
    \/ Run_Dispatch
    \/ Run_SigPause
    \/ Run_Events
    \/ KeyEvent
    \/ CardNew
    \/ CardRemoved
    \/ CardChanged
    \/ SubscribeCallback
    \/ Recv

\* both workers from their start: the senders and the receiver
NextFirst ==
    \/ NextWorker
    \/ Run_PollErr
    \/ Listen_PollErr
    \/ KeyEvent
    \/ Signal
    \/ CardChanged
    \/ PublishPause
    \/ SubscribeCallback
    \/ Connect
    \/ ContextProgress
    \/ ContextFail
    \/ WaitReady
    \/ Recv

NextStart ==
    \E p \in Instances :
        \/ Main_Cli(p)
        \/ Main_Lock(p)
        \/ Main_Config(p)
        \/ Main_Spawn(p)
        \/ Main_Mute(p)
        \/ Main_Register(p)
        \/ Main_Listen(p)
        \/ Main_LoopIdle(p)
        \/ Main_LoopSend(p)
        \/ Main_LoopErr(p)
        \/ Actuator_Fail(p)

NextKeybind == New \/ MuteOnInit

NextReady ==
    \/ NextWorker
    \/ Connect
    \/ ContextProgress
    \/ ContextFail
    \/ WaitReady
    \/ Recv

\* the construction of the tracker from PUSH2TALK_KEYBIND
SpecKeybind == InitKeybind /\ [][NextKeybind]_vars

\* the tracker under key events alone
SpecTracker == InitTracker /\ [][NextTracker]_vars

\* the input worker under key events and SIGUSR1
SpecPause == InitPause /\ [][NextPause]_vars

\* the input worker under key events and SIGUSR1, where the worker runs on:
\* poll returns (its timeout is 1 s) and the loop takes its next step. Nothing
\* makes a key event or a signal happen, and poll fails only with EINTR
SpecSignalFair ==
    /\ InitPause /\ [][NextSignals]_vars
    /\ WF_vars(NextWorker \/ Run_PollErr \/ Listen_PollErr)

\* the actuator over the two example sources, for every filter
SpecFilter == InitFilter /\ [][NextFilter]_vars

\* the actuator over three sources with and without port, for some filters
SpecSweep == InitSweep /\ [][NextFilter]_vars

\* the split controllers (libinput and pulseaudio) under card events and SIGUSR1
SpecAudio == InitAudioSys /\ [][NextAudio]_vars

\* the senders of decisions under key events, card events and SIGUSR1
SpecSystem == InitSystem /\ [][NextSystem]_vars

\* the channel between the split controllers: both senders and the receiver
SpecOrder == InitOrder /\ [][NextOrder]_vars

\* the actuator from context.connect on, beside the input worker
SpecReady == InitReady /\ [][NextReady]_vars

\* the same, where the actuator thread runs on (connect returns, the wait
\* loop takes its turns every 250 ms, a decision in the channel is received),
\* the input worker runs on, and a context that has not failed moves on.
\* Nothing makes the server fail
SpecReadyFair ==
    /\ SpecReady
    /\ WF_vars(Connect) /\ WF_vars(WaitReady) /\ WF_vars(Recv)
    /\ WF_vars(ContextProgress)
    /\ WF_vars(NextWorker)

\* both workers from their start, under key events, SIGUSR1 and card changes
SpecFirst == InitFirst /\ [][NextFirst]_vars

\* the start-up of several push2talk processes
SpecStart == InitStart /\ [][NextStart]_vars

\* the same, where a process that has started runs on: main takes its next
\* step up to the loop of listen_libinput, and the loop, whose poll has a
\* timeout of 1 s, takes its turns. Nothing makes a key event that changes
\* the decision, a poll failure or a failure of the actuator happen
SpecStartFair ==
    /\ InitStart
    /\ [][NextStart]_vars
    /\ \A p \in Instances :
          /\ WF_vars(Main_Lock(p))
          /\ WF_vars(Main_Config(p))
          /\ WF_vars(Main_Spawn(p))
          /\ WF_vars(Main_Mute(p))
          /\ WF_vars(Main_Register(p))
          /\ WF_vars(Main_Listen(p))
          /\ WF_vars(Main_LoopIdle(p))

\* ---------------------------------------------------------------- claims
\* the configured keys of the binding
Configured == {first_key} \cup (IF second_key = NoKey THEN {} ELSE {second_key})

\* the keys held after the first i handled events
RECURSIVE Held(_)
Held(i) ==
    IF i = 0 THEN {}
    ELSE IF log[i].pressed THEN Held(i - 1) \cup {log[i].key}
         ELSE Held(i - 1) \ {log[i].key}

\* "NOT all configured keys currently pressed" after the first i handled events
Level(i) == ~(Configured \subseteq Held(i))

\* the value changes of Level along the handled events, from nothing pressed
RECURSIVE LevelChanges(_)
LevelChanges(i) ==
    IF i = 0 THEN <<>>
    ELSE IF Level(i) # Level(i - 1)
         THEN Append(LevelChanges(i - 1), Level(i))
         ELSE LevelChanges(i - 1)

\* the decisions the first i handled events sent
RECURSIVE Decisions(_)
Decisions(i) == IF i = 0 THEN <<>> ELSE Decisions(i - 1) \o log[i].sent

\* a sequence with consecutive duplicates collapsed
RECURSIVE Dedup(_)
Dedup(q) ==
    IF Len(q) <= 1 THEN q
    ELSE LET r == Dedup(SubSeq(q, 1, Len(q) - 1))
         IN  IF q[Len(q)] = r[Len(r)] THEN r ELSE Append(r, q[Len(q)])

\* C1: for a binding of one key or of two different keys, over events of the
\* configured keys, the decisions the tracker sends, consecutive duplicates
\* collapsed, are the value changes of "NOT all configured keys currently
\* pressed", starting from nothing pressed.
C1_DecisionsFollowLevel ==
    (/\ first_key # second_key
     /\ \A i \in 1..Len(log) : log[i].key \in Configured)
        => Dedup(Decisions(Len(log))) = LevelChanges(Len(log))

\* the events of the end-to-end example
EndToEnd ==
    <<[key |-> "Control_L", pressed |-> TRUE], [key |-> "Space", pressed |-> TRUE],
      [key |-> "Space", pressed |-> FALSE], [key |-> "Control_L", pressed |-> FALSE]>>

\* what the events of the example send, in turn: nothing, unmute, mute, nothing
EndToEndSent == << <<>>, <<FALSE>>, <<TRUE>>, <<>> >>

\* C2: with binding [Control_L, Space] and a fresh tracker, press(Control_L),
\* press(Space), release(Space), release(Control_L) send nothing, unmute, mute
\* and nothing: as far as the handled events follow the example, each has sent
\* what the example says.
C2_EndToEnd ==
    (/\ first_key = "Control_L" /\ second_key = "Space"
     /\ Len(log) <= 4
     /\ \A i \in 1..Len(log) : /\ log[i].key = EndToEnd[i].key
                                /\ log[i].pressed = EndToEnd[i].pressed)
        => \A i \in 1..Len(log) : log[i].sent = EndToEndSent[i]

\* C3 as stated: the step from Running to Paused sends no decision.
C3_PauseSendsNothing ==
    [][(is_running /\ ~is_running') => chan' = chan]_vars

\* C3 as amended: on the step from Running to Paused listen_libinput sends no
\* decision and Controller::run sends exactly one, unmute; neither touches
\* the pressed flags or last_mute.
C3_PauseSendsUnmuteOrNothing ==
    [][(is_running /\ ~is_running') =>
          /\ variant = MainRs => chan' = chan
          /\ variant = LibinputMod => chan' = Append(chan, Msg(FALSE, "pause"))
          /\ UNCHANGED trackerVars]_vars

C3_Witness ==
    /\ variant = LibinputMod
    /\ ~is_running
    /\ pc = "events"
    /\ chan # <<>>
    /\ chan[Len(chan)] = Msg(FALSE, "pause")

\* C4: a key event that occurs while the worker is Paused never changes a
\* pressed flag and never makes the tracker send a decision, neither during
\* the pause nor after the resume.
C4_PausedEventsDiscarded ==
    \A i \in 1..Len(log) :
        log[i].paused =>
            /\ log[i].sent = <<>>
            /\ log[i].fkp = (IF i = 1 THEN FALSE ELSE log[i - 1].fkp)
            /\ log[i].skp = (IF i = 1 THEN FALSE ELSE log[i - 1].skp)

\* C5: for a binding of one key or of two different keys, right after every
\* step from Paused to Running all pressed flags are false.
C5_ResumeClearsChord ==
    [][(first_key # second_key /\ ~is_running /\ is_running') =>
          (~first_key_pressed' /\ ~second_key_pressed')]_vars

\* the step that is the sweep for a decision the subscribe callback sent
CardSweep == chan # <<>> /\ chan' = Tail(chan) /\ Head(chan).origin = "card"

\* the step that is the subscribe callback on a card New, not paused
NewCardCallback ==
    /\ notif # <<>> /\ notif' = Tail(notif)
    /\ Head(notif).operation = "New"
    /\ ~is_paused

\* C6 as stated: not paused, a card New makes the callback send mute, and,
\* the decision applied last being mute, the sweep for it asks mute=true of
\* every new source the filter selects.
C6_NewDeviceMuted ==
    [][/\ NewCardCallback => /\ chan' # chan
                             /\ chan'[Len(chan')].mute
       /\ (CardSweep /\ last_recv # NoMsg /\ last_recv.mute) =>
             \A d \in devices :
                 (d.index = Head(chan).dev /\ toggle(variant, source, d.desc))
                     => [index |-> d.index, mute |-> TRUE] \in requests']_vars

\* C6 as amended: not paused, a card New makes the callback send mute, and the
\* sweep for it asks, of every source the filter selects, the new one
\* included, mute=true if the source has an active port and mute=false if not.
C6_NewDeviceMutedIfPort ==
    [][/\ NewCardCallback => /\ chan' # chan
                             /\ chan'[Len(chan')].mute
       /\ CardSweep =>
             /\ \A d \in devices :
                   toggle(variant, source, d.desc)
                       => [index |-> d.index, mute |-> d.port] \in requests'
             /\ \A r \in requests' :
                   \E d \in devices : r.index = d.index /\ r.mute = d.port]_vars

C6_Witness ==
    /\ last_recv.origin = "card"
    /\ last_recv.dev # 0
    /\ \E r \in requests : r.index = last_recv.dev /\ r.mute
    /\ log = <<>>

\* C7: N >= 1 deliveries of SIGUSR1 between two swaps of sig_pause give
\* exactly one flip of is_running, and a swap with none gives no flip.
C7_Coalescing == obs.seen => obs.flips = (IF obs.n >= 1 THEN 1 ELSE 0)

C7_Witness == obs.seen /\ obs.n >= 2 /\ obs.flips = 1

\* C8: in every reachable tracker state, for every event, handling the same
\* event a second time sends nothing and leaves the pressed flags and
\* last_mute as the first handling left them.
C8_Idempotent ==
    \A k \in Keys, p \in BOOLEAN :
        LET ev == [key |-> k, pressed |-> p]
            once == handle(Tracker, ev)
            twice == handle(once.t, ev)
        IN  twice.sent = <<>> /\ twice.t = once.t

C8_Witness ==
    \E i \in 2..Len(log) :
        /\ log[i].key = log[i - 1].key /\ log[i].pressed = log[i - 1].pressed
        /\ log[i - 1].sent # <<>>
        /\ log[i].sent = <<>>

\* the processes whose workers run
WithWorkers == {p \in Instances : inst[p].actuator \/ inst[p].input}

\* C9: at most one process has started its workers; a process whose workers
\* run, or that has sent a decision and still runs, holds the lock; and a
\* process that failed with "Another instance is already running." has
\* started no worker and sent no decision.
C9_SingleInstance ==
    /\ Cardinality(WithWorkers) <= 1
    /\ \A p \in Instances :
          /\ p \in WithWorkers => lockHolder = p
          /\ (inst[p].sent > 0 /\ inst[p].pc # "exited") => lockHolder = p
          /\ inst[p].err = AlreadyRunning =>
                ~inst[p].started /\ inst[p].sent = 0 /\ inst[p].pc = "exited"

C9_Witness ==
    \E p, q \in Instances :
        /\ inst[p].actuator /\ inst[p].input
        /\ inst[q].err = AlreadyRunning

\* the indices of the sources the last sweep touched
SweptIndices == {r.index : r \in requests}

\* C10 as stated: a filter selects exactly the sources whose description
\* contains it.
C10_SubstringFilter ==
    (last_recv # NoMsg /\ source # NoSource)
        => SweptIndices = {d.index : d \in {e \in devices :
                               contains(Text(e.desc), Text(source))}}

\* C10 as amended: a filter selects exactly the sources whose description is
\* the filter: over "Built-in Microphone" and "USB Headset Mic", the filter
\* "USB Headset Mic" selects the second, and "Headset", "Mic" and
\* "Nonexistent" select none.
C10_ExactFilter ==
    (last_recv # NoMsg /\ source # NoSource)
        => /\ SweptIndices = {d.index : d \in {e \in devices : e.desc = source}}
           /\ source = "USB Headset Mic" => SweptIndices = {2}
           /\ source \in {"Headset", "Mic", "Nonexistent"} => SweptIndices = {}

C10_Witness ==
    /\ last_recv # NoMsg
    /\ source = "USB Headset Mic"
    /\ SweptIndices = {2}

\* the names xkb knows, in either case
Recognized == {"Control_L", "control_l", "Space"}

\* the key vectors of 0 to MaxNames + 1 keys
KeyVectors == UNION {[1..n -> {"Control_L", "Space"}] : n \in 0..(MaxNames + 1)}

\* C11: construction succeeds exactly when the binding lists 1 or 2 names,
\* all recognized: validate_keybind gives Err for 0 keys and for 3 or more and
\* Ok for 1 or 2, parse_keybind gives Err when a name is not recognized, and
\* on an error no key is configured and nothing has been sent.
C11_KeybindConstruction ==
    /\ \A ks \in KeyVectors : validate_keybind(ks) <=> Len(ks) \in {1, 2}
    /\ pc # "new" =>
          /\ (pc \notin {"parse_err", "validate_err"}) <=>
                (/\ Len(keybind) \in {1, 2}
                 /\ \A i \in 1..Len(keybind) : keybind[i] \in Recognized)
          /\ (\E i \in 1..Len(keybind) : keybind[i] \notin Recognized)
                => pc = "parse_err"
          /\ pc \in {"parse_err", "validate_err"} =>
                first_key = NoKey /\ second_key = NoKey /\ sent_all = <<>>
          /\ pc \notin {"parse_err", "validate_err"} =>
                /\ first_key = keysym_from_name(keybind[1])
                /\ first_key # NoSymbol

C11_Witness ==
    /\ pc = "validate_err"
    /\ Len(keybind) = 3
    /\ \A i \in 1..Len(keybind) : keybind[i] \in Recognized

\* the last decision sent on the channel
LastSent == sent_all[Len(sent_all)]

C13_FailureTerminates ==
    \A p \in Instances : [](inst[p].failed # "" => <>(inst[p].pc = "exited"))

\* C14: a decision sent for a key event differs from the decision sent just
\* before it, the mute of start-up being the first decision sent.
C14_NoRepeatedDecision ==
    \A i \in 2..Len(sent_all) :
        sent_all[i].origin = "key" => sent_all[i].mute # sent_all[i - 1].mute

\* C16: once a decision has been sent, last_mute is the last decision sent.
C16_LastMuteIsLastSent == sent_all # <<>> => last_mute = LastSent.mute

\* C19: an event of a key that is not configured, the first event after
\* start-up included, sends nothing and leaves the pressed flags and
\* last_mute as they were.
C19_UnconfiguredIgnored ==
    \A i \in 1..Len(log) :
        log[i].key \notin Configured =>
            /\ log[i].sent = <<>>
            /\ log[i].fkp = (IF i = 1 THEN FALSE ELSE log[i - 1].fkp)
            /\ log[i].skp = (IF i = 1 THEN FALSE ELSE log[i - 1].skp)
            /\ log[i].lm = (IF i = 1 THEN InitLastMute(variant) ELSE log[i - 1].lm)

\* the sources the DeviceFilter selects: the ones the filter names; with no
\* filter all of them, but for the loopback source where it is excluded
Selected ==
    IF source # NoSource
    THEN {d \in devices : d.desc = source}
    ELSE IF variant = MainRs THEN devices ELSE {d \in devices : d.desc # EasyFx}

\* C18 as stated: the sweep of a decision asks exactly the received value of
\* every selected source and asks nothing of any other source.
C18_SweepExactValue ==
    last_recv # NoMsg =>
        requests = {[index |-> d.index, mute |-> last_recv.mute] : d \in Selected}

\* C18 as amended: the sweep of a decision asks every selected source, and no
\* other, for the received value in main.rs and for "has an active port and
\* the received value" in pulseaudio/mod.rs; a source whose request fails
\* does not keep the others from getting theirs.
C18_SweepValueByPort ==
    last_recv # NoMsg =>
        /\ requests =
              {[index |-> d.index,
                mute |-> IF variant = MainRs THEN last_recv.mute
                         ELSE d.port /\ last_recv.mute] : d \in Selected}
        /\ \A d \in Selected :
              d.ok => d.muted = (IF variant = MainRs THEN last_recv.mute
                                 ELSE d.port /\ last_recv.mute)

C18_Witness ==
    /\ last_recv # NoMsg /\ last_recv.mute
    /\ \E d, e \in Selected :
          /\ ~d.ok /\ ~d.muted
          /\ e.index > d.index /\ e.ok /\ e.muted
    /\ \E d \in devices : d \notin Selected

\* C20: a poll that fails with EINTR is retried, with no error and with the
\* pressed flags, last_mute and is_running unchanged; a poll that fails
\* otherwise makes the worker return an error.
C20_EintrRetried ==
    [][/\ (pc = "poll" /\ poll_err = "EINTR" /\ poll_err' = "none") =>
             (pc' = "poll" /\ UNCHANGED <<trackerVars, is_running>>)
       /\ (pc = "poll" /\ poll_err = "other" /\ poll_err' = "none") =>
             pc' = "failed"]_vars

\* the positions in sent_all of the decisions this step sends
NewSent == (Len(sent_all) + 1)..Len(sent_all')

\* the decision is one handle sent, Running, with every configured key
\* recorded as pressed
ByChord(i) ==
    /\ sent_all'[i].origin = "key"
    /\ is_running
    /\ \A j \in (Len(log) + 1)..Len(log') :
          FALSE \in {log'[j].sent[k] : k \in 1..Len(log'[j].sent)} =>
              log'[j].fkp /\ (second_key = NoKey \/ log'[j].skp)

LastTrackerDecision ==
    LET ks == {i \in 1..Len(sent_all) : sent_all[i].origin = "key"}
    IN  IF ks = {} THEN TRUE
        ELSE sent_all[CHOOSE i \in ks : \A j \in ks : j <= i].mute

\* the step that is the subscribe callback on a card notification
CallbackStep == notif # <<>> /\ notif' = Tail(notif)

\* C17 as stated: not paused, the callback sends the last decision of the
\* tracker, mute if there is none; paused, it sends nothing.
C17_ResendsLastDecision ==
    [][CallbackStep =>
          IF is_paused
          THEN sent_all' = sent_all
          ELSE /\ Len(sent_all') = Len(sent_all) + 1
               /\ sent_all'[Len(sent_all')].mute = LastTrackerDecision]_vars

\* C17 as amended: not paused, the callback sends mute, whatever the last
\* decision of the tracker; paused, it sends nothing.
C17_SendsMute ==
    [][CallbackStep =>
          IF is_paused
          THEN sent_all' = sent_all
          ELSE /\ Len(sent_all') = Len(sent_all) + 1
               /\ sent_all'[Len(sent_all')].mute
               /\ sent_all'[Len(sent_all')].origin = "card"]_vars

C17_Witness ==
    /\ ~LastTrackerDecision
    /\ sent_all[Len(sent_all)].origin = "card"
    /\ sent_all[Len(sent_all)].mute
    /\ ~is_paused /\ is_running

\* ----------------------------------------------------------------- C21
\* C21: the actuator's wait for the context to be Ready always ends: the
\* actuator enters the receive loop, or it ends with an error; it never
\* polls forever
C21_WaitTerminates == <>(act \in {"recv", "failed"})

\* ----------------------------------------------------------------- C22
\* C22: for every accepted binding, the same key in both slots included,
\* when every configured key has been pressed and not released, should_mute
\* is false
C22_ChordUnmutes ==
    (log # <<>> /\ Configured \subseteq Held(Len(log))) => ~should_mute(Tracker)

\* ----------------------------------------------------------------- C23
\* C23: a SIGUSR1 delivery is never lost: whenever deliveries are pending,
\* a later swap of sig_pause observes them and flips is_running
C23_SignalNotLost ==
    (delivered > 0) ~> (delivered = 0 /\ obs.seen /\ obs.flips = 1)

\* ----------------------------------------------------------------- C24
\* the decisions of q that the input worker sent (not the subscribe callback)
RECURSIVE ByWorker(_)
ByWorker(q) ==
    IF q = <<>> THEN <<>>
    ELSE IF Head(q).origin = "card" THEN ByWorker(Tail(q))
         ELSE <<Head(q)>> \o ByWorker(Tail(q))

\* C24: the first decision the input worker sends after start-up is mute,
\* it is sent before the worker has handled a key event or swapped the
\* signal flag, and the first decision the actuator applies is never unmute
C24_FirstDecisionMutes ==
    /\ ByWorker(sent_all) # <<>> => ByWorker(sent_all)[1] = Msg(TRUE, "init")
    /\ (log # <<>> \/ obs.seen) => ByWorker(sent_all) # <<>>
    /\ applied # <<>> => applied[1].mute

\* the actuator has applied the start-up mute and, after it, an unmute the
\* worker sent on a key event or on a pause
C24_Witness ==
    /\ Len(applied) >= 2
    /\ applied[1] = Msg(TRUE, "init")
    /\ \E i \in 2..Len(applied) : ~applied[i].mute
    /\ (log # <<>> \/ obs.seen)
====
